---- MODULE Spec2Model ----
(***************************************************************************)
(* State-machine model of src/content.js, the content script of the        *)
(* Bearable Desktop Instagram extension: the TimestampStore (in-memory     *)
(* map, chrome.storage.session, sessionStorage), the Preferences, the      *)
(* enhancement of video elements and the handlers that save and restore    *)
(* playback positions.                                                     *)
(*                                                                         *)
(* Numbers.  JavaScript numbers are modelled in fixed point: an integer n  *)
(* stands for n / Scale, so 250 is 2.5 (seconds, or a volume of 2.5), and  *)
(* CONFIG.SEEK_END_BUFFER = 0.5 is 50.                                     *)
(* Strings held by sessionStorage are sequences of one-character strings,  *)
(* so that toString and parseFloat are computed, not assumed inverse.      *)
(***************************************************************************)
EXTENDS Integers, Sequences, FiniteSets, TLC

\* ------------------------------------------------------------------------
\* Bounds of the model and program constants
\* ------------------------------------------------------------------------

\* Number of video elements the host page keeps alive at the same time.
NumVideos == 2

\* Number of events (insertions, removals, clicks, playback, navigation) the
\* user and the host page cause in one run; what the script does in answer
\* (scans, settled reads, timers, loadedmetadata) is not counted.
MaxEvents == 6

\* Fixed-point scale of every number of the model (two decimal places).
Scale == 100

\* CONFIG.SEEK_END_BUFFER = 0.5 s
SEEK_END_BUFFER == 50

\* The not-a-number value (parseFloat of a string that is no number).
NaN == 0 - 999999

Videos == 1..NumVideos

\* Post identifiers the page shows; NoPost is getPostId's null.
Posts == {"A", "B"}
NoPost == "none"

\* Playback positions and durations (hundredths of a second).
Times == {30, 250}

\* ------------------------------------------------------------------------
\* Strings and conversions
\* ------------------------------------------------------------------------

DigitChars == <<"0", "1", "2", "3", "4", "5", "6", "7", "8", "9">>

IsDigit(c) == \E i \in 1..10 : DigitChars[i] = c

DigitVal(c) == (CHOOSE i \in 1..10 : DigitChars[i] = c) - 1

RECURSIVE NatToString(_)
NatToString(n) ==
    IF n < 10 THEN <<DigitChars[n + 1]>>
    ELSE NatToString(n \div 10) \o <<DigitChars[(n % 10) + 1]>>

\* Number.prototype.toString(): shortest decimal that reads back the same.
NumberToString(x) ==
    IF x = NaN THEN <<"N", "a", "N">>
    ELSE LET a    == IF x < 0 THEN 0 - x ELSE x
             ip   == a \div Scale
             fp   == a % Scale
             frac == IF fp = 0 THEN <<>>
                     ELSE IF fp % 10 = 0 THEN <<".", DigitChars[(fp \div 10) + 1]>>
                     ELSE <<".", DigitChars[(fp \div 10) + 1], DigitChars[(fp % 10) + 1]>>
         IN  (IF x < 0 THEN <<"-">> ELSE <<>>) \o NatToString(ip) \o frac

\* Boolean.prototype.toString()
BoolToString(b) ==
    IF b THEN <<"t", "r", "u", "e">> ELSE <<"f", "a", "l", "s", "e">>

\* Length of the run of digits of s that starts at index i.
RECURSIVE DigitRun(_, _)
DigitRun(s, i) ==
    IF i <= Len(s) /\ IsDigit(s[i]) THEN 1 + DigitRun(s, i + 1) ELSE 0

\* Value of the n digits of s that start at index i.
RECURSIVE DigitsValue(_, _, _)
DigitsValue(s, i, n) ==
    IF n = 0 THEN 0
    ELSE 10 * DigitsValue(s, i, n - 1) + DigitVal(s[i + n - 1])

\* parseFloat(): the longest prefix [sign] digits [. digits]; NaN when that
\* prefix holds no digit.  Digits past the second decimal are below the
\* resolution of the model and dropped.
ParseFloat(s) ==
    LET signed == Len(s) > 0 /\ s[1] \in {"-", "+"}
        start  == IF signed THEN 2 ELSE 1
        nInt   == DigitRun(s, start)
        dot    == start + nInt
        hasDot == dot <= Len(s) /\ s[dot] = "."
        nFrac  == IF hasDot THEN DigitRun(s, dot + 1) ELSE 0
        f1     == IF nFrac >= 1 THEN DigitVal(s[dot + 1]) ELSE 0
        f2     == IF nFrac >= 2 THEN DigitVal(s[dot + 2]) ELSE 0
        mag    == DigitsValue(s, start, nInt) * Scale + 10 * f1 + f2
    IN  IF nInt = 0 /\ nFrac = 0 THEN NaN
        ELSE IF signed /\ s[1] = "-" THEN 0 - mag ELSE mag

\* ------------------------------------------------------------------------
\* Maps (Map, chrome.storage.session, sessionStorage): functions whose
\* domain is the set of keys present
\* ------------------------------------------------------------------------

EmptyMap == <<>>

Has(m, k) == k \in DOMAIN m

Put(m, k, v) == [x \in (DOMAIN m) \cup {k} |-> IF x = k THEN v ELSE m[x]]

Delete(m, k) == [x \in (DOMAIN m) \ {k} |-> m[x]]

\* `ts_${postId}`, the key in chrome.storage.session
ChromeKey(postId) == "ts_" \o postId

\* `ig_ts_${postId}`, the key in sessionStorage
SessKey(postId) == "ig_ts_" \o postId

VARIABLES
    store,      \* TimestampStore: [timestamps, chromeSession, sessionStorage]
    chromeOk,   \* chrome.storage.session can be called (else the call throws)
    sessOk,     \* sessionStorage can be accessed (else the access throws)
    last,       \* the last TimestampStore call made by a caller and its outcome
    hist,       \* per post: what the caller saved and how often it read since
    failed,     \* an exception has left the script's code (thrown to the caller
                \* of a handler, or an unhandled promise rejection)
    video,      \* the video elements: DOM state, media state, pending restore
    pathPost,   \* the post named by location.pathname (NoPost: none)
    prefs,      \* Preferences: [muted, volume]
    saveDebounceTimer,  \* the 500 ms timer of saveAllVideoTimestamps is running
    owed,       \* per post: the positions the clicks made so far promise to restore
    events,     \* the events the user and the host page have caused so far
    ui,         \* the last use of an overlay's mute button or volume slider
    loop,       \* the discovery loop of init(): observer, timers, last location
    probe       \* a call of a function of the script on its own: input and result

storeVars == <<store, chromeOk, sessOk, last, hist, failed>>
pageVars == <<video, pathPost, prefs, saveDebounceTimer, owed, ui, loop, probe>>
vars == <<store, chromeOk, sessOk, last, hist, failed,
          video, pathPost, prefs, saveDebounceTimer, owed, events, ui, loop,
          probe>>

\* ------------------------------------------------------------------------
\* TimestampStore
\* ------------------------------------------------------------------------

EmptyStore ==
    [timestamps |-> EmptyMap, chromeSession |-> EmptyMap, sessionStorage |-> EmptyMap]

\* What a call leaves behind: the store, how the call ended ("done", "value",
\* "null", "pending", or "throw" for an exception that reaches the caller),
\* the value returned and the tier that served it.
Outcome(st, kind, value, tier) ==
    [st |-> st, kind |-> kind, value |-> value, tier |-> tier]

\* TimestampStore.save(postId, currentTime)
TS_save(st, postId, currentTime, cOk, sOk) ==
    IF postId # NoPost /\ currentTime > 0
    THEN LET st1 == [st EXCEPT !.timestamps = Put(@, postId, currentTime)]
         IN  IF cOk
             THEN Outcome([st1 EXCEPT !.chromeSession =
                               Put(@, ChromeKey(postId), currentTime)],
                          "done", 0, "chrome")
             ELSE IF sOk
             THEN Outcome([st1 EXCEPT !.sessionStorage =
                               Put(@, SessKey(postId), NumberToString(currentTime))],
                          "done", 0, "session")
             ELSE Outcome(st1, "throw", 0, "none")
    ELSE Outcome(st, "done", 0, "none")

\* TS_getFallback without its removeItem: the fallback entry outlives the read.
TS_getFallback_KeepsItem(st, postId, sOk) ==
    IF ~sOk THEN Outcome(st, "throw", 0, "none")
    ELSE LET k == SessKey(postId)
         IN  IF Has(st.sessionStorage, k) /\ Len(st.sessionStorage[k]) > 0
             THEN Outcome(st, "value", ParseFloat(st.sessionStorage[k]), "session")
             ELSE Outcome(st, "null", 0, "none")

\* The catch block of get: sessionStorage.getItem / removeItem / parseFloat
TS_getFallback(st, postId, sOk) ==
    IF ~sOk THEN Outcome(st, "throw", 0, "none")
    ELSE LET k == SessKey(postId)
         IN  IF Has(st.sessionStorage, k) /\ Len(st.sessionStorage[k]) > 0
             THEN Outcome([st EXCEPT !.sessionStorage = Delete(@, k)],
                          "value", ParseFloat(st.sessionStorage[k]), "session")
             ELSE Outcome(st, "null", 0, "none")

\* What chrome.storage.session.get reads when the request is issued.
ChromeRead(st, postId) ==
    LET k == ChromeKey(postId)
    IN  IF Has(st.chromeSession, k)
        THEN [has |-> TRUE, value |-> st.chromeSession[k]]
        ELSE [has |-> FALSE, value |-> 0]

\* TimestampStore.get(postId) up to its await: the memory check, and the
\* call of chrome.storage.session.get, which throws at once when the API
\* is unavailable.  kind "pending": the read is in flight.
TS_getBegin(st, postId, cOk, sOk) ==
    IF postId = NoPost THEN Outcome(st, "null", 0, "none")
    ELSE IF Has(st.timestamps, postId)
    THEN Outcome([st EXCEPT !.timestamps = Delete(@, postId)],
                 "value", st.timestamps[postId], "memory")
    ELSE IF cOk THEN Outcome(st, "pending", 0, "chrome")
    ELSE TS_getFallback(st, postId, sOk)

\* TimestampStore.get(postId) after its await: the read has settled with
\* `read`, or was rejected because the API went away.
TS_getSettle(st, postId, read, cOk, sOk) ==
    IF cOk
    THEN IF read.has /\ read.value # 0
         THEN Outcome([st EXCEPT !.chromeSession = Delete(@, ChromeKey(postId))],
                      "value", read.value, "chrome")
         ELSE Outcome(st, "null", 0, "none")
    ELSE TS_getFallback(st, postId, sOk)

\* TimestampStore.get(postId), awaited by its caller with nothing in between.
TS_get(st, postId, cOk, sOk) ==
    LET b == TS_getBegin(st, postId, cOk, sOk)
    IN  IF b.kind = "pending"
        THEN TS_getSettle(b.st, postId, ChromeRead(b.st, postId), cOk, sOk)
        ELSE b

\* TimestampStore.clear(postId)
TS_clear(st, postId, cOk, sOk) ==
    LET st1 == [st EXCEPT !.timestamps = Delete(@, postId)]
    IN  IF cOk
        THEN Outcome([st1 EXCEPT !.chromeSession = Delete(@, ChromeKey(postId))],
                     "done", 0, "chrome")
        ELSE IF sOk
        THEN Outcome([st1 EXCEPT !.sessionStorage = Delete(@, SessKey(postId))],
                     "done", 0, "session")
        ELSE Outcome(st1, "throw", 0, "none")

\* ------------------------------------------------------------------------
\* The page: video elements, Preferences, location
\* ------------------------------------------------------------------------

\* Durations of the videos the host page shows (0.3 s and 2.5 s).
Durations == {30, 250}

\* Values of the volume slider (min 0, max 1, step 0.05) the user picks.
Volumes == {0, 50, 100}

Min(a, b) == IF a <= b THEN a ELSE b

Max(a, b) == IF a >= b THEN a ELSE b

\* The restore that enhanceVideo started for a video:
\*   phase  "none": nothing pending; "reading": chrome.storage.session.get is
\*          in flight; "waitMeta": the once-listener for loadedmetadata is
\*          registered; "done": the seek was made
\*   postId the post the read was made for, read what it read
\*   time   savedTime
\*   path   "immediate" or "deferred": which branch of seekToSaved seeked
\*   manual the position the user moved the video to while the restore was
\*          pending (0: the user did not)
\*   was    the position the video had when the seek was made
\*   cleaned  the cleanup of the video had run when the seek was made
NoRestore ==
    [phase |-> "none", postId |-> NoPost, read |-> [has |-> FALSE, value |-> 0],
     time |-> 0, path |-> "none", manual |-> 0, was |-> 0, cleaned |-> FALSE]

\* A video element the script has not seen.
\*   link       the post of the link getPostId finds in the article or ancestors
\*   igEnhanced dataset.igEnhanced
\*   wrappers   ig-enhancer-wrapper elements around the video
\*   overlays   ig-enhancer-controls elements attached for the video
\*   listening  the overlay's AbortController has not been aborted
\*   ready      readyState >= 1 (video.duration is NaN until then)
\*   seeks, seekTo  the restore seeks made and the value the last one wrote
\*   due, dueEff    the position owed to this video when it was enhanced
\*   calls      the calls of enhanceVideo on the element (counted to 2)
\*   isDragging the overlay's isDragging flag
\*   held       the user is dragging the seek control (from mousedown or input
\*              to change or mouseup)
\*   moved      the user has moved the seek control and change has not fired yet
\*   progress   the value of the seek control, in percent
\*   label      the text of the elapsed-time label
\*   visible    the element's rectangle overlaps the viewport
\*   paused     video.paused
\*   sound      where muted and volume come from: the host page ("host"),
\*              the preferences applied by enhanceVideo ("applied"), the
\*              overlay's button or slider ("user")
FreshVideo ==
    [inDoc |-> FALSE, link |-> NoPost, igEnhanced |-> FALSE, wrappers |-> 0,
     overlays |-> 0, listening |-> FALSE, muted |-> TRUE, volume |-> Scale,
     currentTime |-> 0, duration |-> 0, ready |-> FALSE, restore |-> NoRestore,
     seeks |-> 0, seekTo |-> 0, due |-> 0, dueEff |-> 0, calls |-> 0,
     sound |-> "host", visible |-> FALSE, paused |-> TRUE,
     isDragging |-> FALSE, held |-> FALSE, moved |-> FALSE, progress |-> 0,
     label |-> <<"0", ":", "0", "0">>]

\* Per post, what the clicks promise the next enhanced video of that post:
\*   pos     the position a video of the post had at the last click on a post
\*           link or action button (0: none, or already handed to a video)
\*   posEff  the same, counting only the clicks whose saveAllVideoTimestamps
\*           ran and the videos it reached
NoOwed == [p \in Posts |-> [pos |-> 0, posEff |-> 0]]

\* The last use of an overlay's mute button ("mute") or volume slider
\* ("volume"): the video, whether it was muted before, and what the user has
\* asked for since the start: nothing yet ("default"), sound ("unmuted") or
\* silence ("muted").
NoUse == [op |-> "none", video |-> 0, wasMuted |-> FALSE, sound |-> "default"]

Use(op, v, muted) ==
    [op |-> op, video |-> v, wasMuted |-> video[v].muted,
     sound |-> IF muted THEN "muted" ELSE "unmuted"]

\* The discovery loop before init() has run:
\*   started   init() has run: the observer and the listeners are registered
\*   lastUrl   the location the observer callback saw last
\*   records   the mutation records queued for the observer: "none", "other"
\*             (no added node is or contains a video) or "video"
\*   scanLive  the timers set with SCAN_DEBOUNCE_MS that have not fired
\*   navLive   the timers set with NAVIGATION_SCAN_DELAY_MS that have not fired
\*   burst     the callbacks that asked for a debounced scan since the last
\*             such scan ran; coalesced: the burst the last such scan ended
\*   asked     how the last callback or popstate handler went: "none",
\*             "debounce", "navigation" (a rescan was scheduled), "threw"
\*   enhancedBy  the scan that enhanced a video last: "none", "init",
\*             "debounce" or "navigation"
NoLoop ==
    [started |-> FALSE, lastUrl |-> NoPost, records |-> "none", scanLive |-> 0,
     navLive |-> 0, burst |-> 0, coalesced |-> 0, asked |-> "none",
     enhancedBy |-> "none"]

\* No function has been called on its own.
NoProbe == [fn |-> "none"]

InitPage ==
    /\ video = [v \in Videos |-> FreshVideo]
    /\ pathPost = NoPost
    /\ prefs = [muted |-> TRUE, volume |-> Scale]
    /\ saveDebounceTimer = FALSE
    /\ owed = NoOwed
    /\ ui = NoUse
    /\ loop = NoLoop

\* getPostId(element): the post of the location path first, else the post of
\* the link found in the article or an ancestor, else null.
GetPostId(path, vr) == IF path # NoPost THEN path ELSE vr.link

\* Assigning video.currentTime: the media element seeks to the value, moved
\* into [0, duration].
SetCurrentTime(vr, x) ==
    [vr EXCEPT !.currentTime = Max(0, Min(x, vr.duration))]

\* A restore that cuts the saved time to the duration, without the buffer.
RestoreTarget_NoBuffer(savedTime, duration) == Min(savedTime, duration)

\* The value enhanceVideo writes to video.currentTime for a saved time.
RestoreTarget(savedTime, duration) == Min(savedTime, duration - SEEK_END_BUFFER)

\* A restore that leaves the video where the user moved it meanwhile.
RestoreSeek_KeepsManualSeek(vr, savedTime, path) ==
    IF vr.restore.manual # 0
    THEN [vr EXCEPT !.restore = [@ EXCEPT !.phase = "done", !.time = savedTime,
                                          !.path = path]]
    ELSE [SetCurrentTime(vr, RestoreTarget(savedTime, vr.duration)) EXCEPT
             !.restore = [@ EXCEPT !.phase = "done", !.time = savedTime, !.path = path,
                                   !.was = vr.currentTime,
                                   !.cleaned = vr.igEnhanced /\ ~vr.listening],
             !.seeks = Min(@ + 1, 2),
             !.seekTo = RestoreTarget(savedTime, vr.duration)]

\* video.currentTime = Math.min(savedTime, video.duration - SEEK_END_BUFFER)
RestoreSeek(vr, savedTime, path) ==
    LET x == RestoreTarget(savedTime, vr.duration)
    IN  [SetCurrentTime(vr, x) EXCEPT
            !.restore = [@ EXCEPT !.phase = "done", !.time = savedTime, !.path = path,
                                  !.was = vr.currentTime,
                                  !.cleaned = vr.igEnhanced /\ ~vr.listening],
            !.seeks = Min(@ + 1, 2),
            !.seekTo = x]

\* seekToSaved() that never registers the listener for loadedmetadata.
SeekToSaved_NoListener(vr, savedTime) ==
    IF vr.ready /\ vr.duration # 0
    THEN RestoreSeek(vr, savedTime, "immediate")
    ELSE vr

\* seekToSaved(): seek now when the metadata is there, else register the
\* once-listener for loadedmetadata.
SeekToSaved(vr, savedTime) ==
    IF vr.ready /\ vr.duration # 0
    THEN RestoreSeek(vr, savedTime, "immediate")
    ELSE [vr EXCEPT !.restore = [@ EXCEPT !.phase = "waitMeta", !.time = savedTime]]

\* The callback enhanceVideo passes to TimestampStore.get(postId).then:
\* it acts only on a saved time > 0.
ThenRestore(vr, out) ==
    IF out.kind = "value" /\ out.value # NaN /\ out.value > 0
    THEN SeekToSaved(vr, out.value)
    ELSE [vr EXCEPT !.restore = NoRestore]

\* getVideoContainer(video): the wrapper around the video, created unless the
\* parent is one already.
GetVideoContainer(vr) ==
    IF vr.wrappers > 0 THEN vr ELSE [vr EXCEPT !.wrappers = @ + 1]

\* createControlsOverlay(video) and container.appendChild(controls): the
\* markup sets the seek control to 0 and the label to 0:00.
AttachControls(vr) ==
    [vr EXCEPT !.overlays = @ + 1, !.listening = TRUE, !.isDragging = FALSE,
               !.progress = 0, !.label = <<"0", ":", "0", "0">>]

\* enhanceVideo that unmutes without restoring the volume.
ApplyPreferences_MutedOnly(vr, pr) ==
    IF ~pr.muted THEN [vr EXCEPT !.muted = FALSE, !.sound = "applied"] ELSE vr

\* Apply saved preferences (mute state)
ApplyPreferences(vr, pr) ==
    IF ~pr.muted
    THEN [vr EXCEPT !.muted = FALSE, !.volume = pr.volume, !.sound = "applied"]
    ELSE vr

\* The state enhanceVideo works on: the videos, the store, the failure flag
\* and the positions owed.
PageState(vd, st, fl, ow) == [video |-> vd, store |-> st, failed |-> fl, owed |-> ow]

\* enhanceVideo(video) without its first two lines: wrapper, overlay,
\* preferences, and the start of the restore.  A get served from the map (or
\* by the catch block) has settled when the handler returns, and its callback
\* runs before any other event is handled; a get that asked
\* chrome.storage.session is left "reading".
EnhanceUnmarked(S, v) ==
    LET vr0    == S.video[v]
        vr1    == ApplyPreferences(AttachControls(GetVideoContainer(
                      [vr0 EXCEPT !.igEnhanced = TRUE])), prefs)
        postId == GetPostId(pathPost, vr1)
        out    == TS_getBegin(S.store, postId, chromeOk, sessOk)
        isPost == postId # NoPost
        vr2    == [vr1 EXCEPT
                      !.due    = IF isPost THEN S.owed[postId].pos ELSE 0,
                      !.dueEff = IF isPost THEN S.owed[postId].posEff ELSE 0]
        vr3    == IF out.kind = "pending"
                  THEN [vr2 EXCEPT !.restore =
                           [NoRestore EXCEPT !.phase = "reading", !.postId = postId,
                                             !.read = ChromeRead(S.store, postId)]]
                  ELSE ThenRestore(vr2, out)
    IN  PageState([S.video EXCEPT ![v] = vr3],
                  out.st,
                  S.failed \/ out.kind = "throw",
                  IF isPost THEN [S.owed EXCEPT ![postId] = [pos |-> 0, posEff |-> 0]]
                  ELSE S.owed)

\* enhanceVideo without its early return: a marked video is enhanced again.
EnhanceOne_NoMarkerCheck(S, v) ==
    EnhanceUnmarked([S EXCEPT !.video[v].calls = Min(@ + 1, 2)], v)

\* enhanceVideo(video): nothing for a video that carries the marker.
EnhanceOne(S, v) ==
    LET S1 == [S EXCEPT !.video[v].calls = Min(@ + 1, 2)]
    IN  IF S.video[v].igEnhanced THEN S1 ELSE EnhanceUnmarked(S1, v)

\* scanForVideos(): enhanceVideo on every video of the document without the
\* marker, in document order (from video v on).
RECURSIVE ScanFrom(_, _)
ScanFrom(S, v) ==
    IF v > NumVideos THEN S
    ELSE ScanFrom(IF S.video[v].inDoc /\ ~S.video[v].igEnhanced
                  THEN EnhanceOne(S, v) ELSE S,
                  v + 1)

Here == PageState(video, store, failed, owed)

Commit(S) ==
    /\ video' = S.video
    /\ store' = S.store
    /\ failed' = S.failed
    /\ owed' = S.owed

\* The host page inserts a video element: post link p, duration d, muted m.
InsertVideo(v, p, d, m) ==
    /\ ~video[v].inDoc
    /\ video' = [video EXCEPT ![v] =
                    [FreshVideo EXCEPT !.inDoc = TRUE, !.link = p, !.duration = d,
                                       !.muted = m]]
    /\ UNCHANGED <<pathPost, prefs, saveDebounceTimer, owed, ui, loop, probe>>
    /\ UNCHANGED storeVars

\* The host page drops a video element (with the wrapper and overlay around
\* it); the element is not used again.
RemoveVideo(v) ==
    /\ video[v].inDoc
    /\ video' = [video EXCEPT ![v] = FreshVideo]
    /\ UNCHANGED <<pathPost, prefs, saveDebounceTimer, owed, ui, loop, probe>>
    /\ UNCHANGED storeVars

\* scanForVideos() runs (at init, or when one of its timers fires).
Scan ==
    /\ Commit(ScanFrom(Here, 1))
    /\ UNCHANGED <<pathPost, prefs, saveDebounceTimer, ui, loop, probe>>
    /\ UNCHANGED <<chromeOk, sessOk, last, hist>>

\* enhanceVideo(video) called on a video of the document, marked or not.
EnhanceVideo(v) ==
    /\ video[v].inDoc
    /\ Commit(EnhanceOne(Here, v))
    /\ UNCHANGED <<pathPost, prefs, saveDebounceTimer, ui, loop, probe>>
    /\ UNCHANGED <<chromeOk, sessOk, last, hist>>

\* A cleanup that removes the controls and the wrapper and leaves the
\* listeners.
CleanupOf_KeepsListeners(vr) ==
    [vr EXCEPT !.overlays = IF @ > 0 THEN @ - 1 ELSE @,
               !.wrappers = IF @ > 0 THEN @ - 1 ELSE @]

\* The body of the cleanup function: abort the listeners, remove the
\* controls, unwrap the video.  The marker stays.
CleanupOf(vr) ==
    [vr EXCEPT !.listening = FALSE,
               !.overlays = IF @ > 0 THEN @ - 1 ELSE @,
               !.wrappers = IF @ > 0 THEN @ - 1 ELSE @]

\* video._igEnhancerCleanup()
Cleanup(v) ==
    /\ video[v].inDoc /\ video[v].igEnhanced
    /\ video' = [video EXCEPT ![v] = CleanupOf(@)]
    /\ UNCHANGED <<pathPost, prefs, saveDebounceTimer, owed, ui, loop, probe>>
    /\ UNCHANGED storeVars

\* The read of chrome.storage.session that enhanceVideo awaits settles, and
\* the callback of enhanceVideo runs.
GetSettles(v) ==
    /\ video[v].restore.phase = "reading"
    /\ LET r   == video[v].restore
           out == TS_getSettle(store, r.postId, r.read, chromeOk, sessOk)
       IN  /\ video' = [video EXCEPT ![v] = ThenRestore(@, out)]
           /\ store' = out.st
           /\ failed' = (failed \/ out.kind = "throw")
    /\ UNCHANGED <<pathPost, prefs, saveDebounceTimer, owed, ui, loop, probe>>
    /\ UNCHANGED <<chromeOk, sessOk, last, hist>>

\* The media element has its metadata: loadedmetadata fires, and the
\* once-listener of a waiting restore seeks.
LoadedMetadata(v) ==
    /\ video[v].inDoc /\ ~video[v].ready
    /\ LET vr == [video[v] EXCEPT !.ready = TRUE]
       IN  video' = [video EXCEPT ![v] =
                        IF vr.restore.phase = "waitMeta"
                        THEN RestoreSeek(vr, vr.restore.time, "deferred")
                        ELSE vr]
    /\ UNCHANGED <<pathPost, prefs, saveDebounceTimer, owed, ui, loop, probe>>
    /\ UNCHANGED storeVars

\* The media element loads its resource again: back to position 0 and no
\* metadata, until loadedmetadata fires once more.
LoadStart(v) ==
    /\ video[v].inDoc /\ video[v].ready
    /\ video' = [video EXCEPT ![v] =
                    [@ EXCEPT !.ready = FALSE, !.currentTime = 0,
                              !.restore = IF @.phase = "done" THEN @
                                          ELSE [@ EXCEPT !.manual = 0]]]
    /\ UNCHANGED <<pathPost, prefs, saveDebounceTimer, owed, ui, loop, probe>>
    /\ UNCHANGED storeVars

\* The user plays or seeks the video: the position becomes t.
TimeAdvance(v, t) ==
    /\ video[v].inDoc /\ video[v].ready
    /\ t <= video[v].duration /\ t # video[v].currentTime
    /\ video' = [video EXCEPT ![v] =
                    [@ EXCEPT !.currentTime = t,
                              !.restore = IF @.phase \in {"reading", "waitMeta"}
                                          THEN [@ EXCEPT !.manual = t] ELSE @]]
    /\ UNCHANGED <<pathPost, prefs, saveDebounceTimer, owed, ui, loop, probe>>
    /\ UNCHANGED storeVars

\* The videos saveAllVideoTimestamps saves: in the document, at a position
\* > 0, with a post.
Saveable(v) ==
    /\ video[v].inDoc
    /\ video[v].currentTime > 0
    /\ GetPostId(pathPost, video[v]) # NoPost

\* The body of saveAllVideoTimestamps after its timer check: save each video
\* in document order (from video v on); an exception thrown by save ends the
\* forEach.
RECURSIVE SaveFrom(_, _)
SaveFrom(out, v) ==
    IF v > NumVideos \/ out.kind = "throw" THEN out
    ELSE SaveFrom(IF Saveable(v)
                  THEN TS_save(out.st, GetPostId(pathPost, video[v]),
                               video[v].currentTime, chromeOk, sessOk)
                  ELSE out,
                  v + 1)

\* saveAllVideoTimestamps(): nothing while its timer runs; else start the
\* timer and save.
SaveAllVideoTimestamps ==
    IF saveDebounceTimer
    THEN UNCHANGED <<store, failed, saveDebounceTimer>>
    ELSE LET out == SaveFrom(Outcome(store, "done", 0, "none"), 1)
         IN  /\ saveDebounceTimer' = TRUE
             /\ store' = out.st
             /\ failed' = (failed \/ out.kind = "throw")

\* The last video in document order among vs.
LastOf(vs) == CHOOSE v \in vs : \A w \in vs : w <= v

\* The videos a run of saveAllVideoTimestamps reaches: all that are saveable,
\* or only the first of them when no persistent tier takes the write.
Reached ==
    LET all == {v \in Videos : Saveable(v)}
    IN  IF chromeOk \/ sessOk \/ all = {} THEN all
        ELSE {CHOOSE v \in all : \A w \in all : v <= w}

\* What a click on a post link or an action button promises: per post, the
\* position of its last video in document order.
OwedAfterClick ==
    [p \in Posts |->
        LET mine(vs) == {v \in vs : GetPostId(pathPost, video[v]) = p}
            all      == mine({v \in Videos : Saveable(v)})
            eff      == mine(Reached)
        IN  [pos    |-> IF all = {} THEN owed[p].pos
                        ELSE video[LastOf(all)].currentTime,
             posEff |-> IF saveDebounceTimer \/ eff = {} THEN owed[p].posEff
                        ELSE video[LastOf(eff)].currentTime]]

\* Where a click lands: on a link to a post, on an action button (svg, button,
\* comment icon) inside an article that holds a video, or elsewhere.
ClickTargets == {"postLink", "actionButton", "elsewhere"}

\* handleLinkClick(event)
HandleLinkClick(target) ==
    /\ target = "actionButton" => \E v \in Videos : video[v].inDoc
    /\ IF target \in {"postLink", "actionButton"}
       THEN SaveAllVideoTimestamps /\ owed' = OwedAfterClick
       ELSE UNCHANGED <<store, failed, saveDebounceTimer, owed>>
    /\ UNCHANGED <<video, pathPost, prefs, ui, loop, probe>>
    /\ UNCHANGED <<chromeOk, sessOk, last, hist>>

\* The 500 ms timer of saveAllVideoTimestamps fires.
SaveDebounceElapsed ==
    /\ saveDebounceTimer
    /\ saveDebounceTimer' = FALSE
    /\ UNCHANGED <<video, pathPost, prefs, owed, ui, loop, probe>>
    /\ UNCHANGED storeVars

\* The setters of Preferences.muted and Preferences.volume: the field, and
\* the sessionStorage item unless sessionStorage throws (which is swallowed).
SetItem(st, key, str, sOk) ==
    IF sOk THEN [st EXCEPT !.sessionStorage = Put(@, key, str)] ELSE st

SetMuted(S, value, sOk) ==
    [prefs |-> [S.prefs EXCEPT !.muted = value],
     store |-> SetItem(S.store, "ig_enhancer_muted", BoolToString(value), sOk)]

SetVolume(S, value, sOk) ==
    [prefs |-> [S.prefs EXCEPT !.volume = value],
     store |-> SetItem(S.store, "ig_enhancer_volume", NumberToString(value), sOk)]

\* The overlay of video v takes the user's input.
Wired(v) == video[v].inDoc /\ video[v].overlays > 0 /\ video[v].listening

\* Click on the mute button of the overlay of video v.
MuteClick(v) ==
    /\ Wired(v)
    /\ LET muted == ~video[v].muted
           S     == SetMuted([prefs |-> prefs, store |-> store], muted, sessOk)
       IN  /\ video' = [video EXCEPT ![v].muted = muted, ![v].sound = "user"]
           /\ prefs' = S.prefs
           /\ store' = S.store
           /\ ui' = Use("mute", v, muted)
    /\ UNCHANGED <<pathPost, saveDebounceTimer, owed, loop, probe>>
    /\ UNCHANGED <<chromeOk, sessOk, last, hist, failed>>

\* A slider that mutes at 0 and otherwise leaves video.muted alone.
MutedAfterVolume_OnlyZeroForces(vr, value) == (value = 0) \/ vr.muted

\* What the input listener of the volume slider makes of video.muted.
MutedAfterVolume(vr, value) == (value = 0)

\* The user moves the volume slider of the overlay of video v to value.
VolumeInput(v, value) ==
    /\ Wired(v)
    /\ LET muted == MutedAfterVolume(video[v], value)
           S     == SetMuted(SetVolume([prefs |-> prefs, store |-> store],
                                       value, sessOk),
                             muted, sessOk)
       IN  /\ video' = [video EXCEPT ![v].volume = value, ![v].muted = muted,
                                     ![v].sound = "user"]
           /\ prefs' = S.prefs
           /\ store' = S.store
           /\ ui' = Use("volume", v, muted)
    /\ UNCHANGED <<pathPost, saveDebounceTimer, owed, loop, probe>>
    /\ UNCHANGED <<chromeOk, sessOk, last, hist, failed>>

\* The host page's own sound button mutes or unmutes the video.
HostMute(v) ==
    /\ video[v].inDoc
    /\ video' = [video EXCEPT ![v].muted = ~@, ![v].sound = "host"]
    /\ UNCHANGED <<pathPost, prefs, saveDebounceTimer, owed, ui, loop, probe>>
    /\ UNCHANGED storeVars

\* The host page changes the location (history.pushState).
Navigate(p) ==
    /\ pathPost # p
    /\ pathPost' = p
    /\ UNCHANGED <<video, prefs, saveDebounceTimer, owed, ui, loop, probe>>
    /\ UNCHANGED storeVars

\* ------------------------------------------------------------------------
\* A caller of the TimestampStore that awaits each call (SpecStore)
\* ------------------------------------------------------------------------

NoCall == [op |-> "none", postId |-> NoPost, kind |-> "done", value |-> 0,
           tier |-> "none"]

Call(op, postId, out) ==
    [op |-> op, postId |-> postId, kind |-> out.kind, value |-> out.value,
     tier |-> out.tier]

\* What the caller has done with each post:
\*   saved   the value of the last save by this instance of the script (0: none)
\*   gets    the gets since that save (counted to 2)
\*   latest  the value of the last save, by this or an earlier instance
\*           (0: none since the start or since the last clear)
\*   older   the values that earlier saves wrote and a later save replaced
NoHist == [p \in Posts |-> [saved |-> 0, gets |-> 0, latest |-> 0, older |-> {}]]

InitProgram ==
    /\ store = EmptyStore
    /\ chromeOk \in BOOLEAN
    /\ sessOk \in BOOLEAN
    /\ last = NoCall
    /\ hist = NoHist
    /\ failed = FALSE
    /\ InitPage
    /\ events = 0

InitStore == InitProgram /\ probe = NoProbe

Save(postId, t) ==
    LET out == TS_save(store, postId, t, chromeOk, sessOk)
    IN  /\ store' = out.st
        /\ last' = Call("save", postId, out)
        /\ hist' = [hist EXCEPT ![postId] =
                       [saved |-> t, gets |-> 0, latest |-> t,
                        older |-> (@.older \cup (IF @.latest = 0 THEN {} ELSE {@.latest}))
                                      \ {t}]]
        /\ failed' = (failed \/ out.kind = "throw")
        /\ UNCHANGED <<chromeOk, sessOk>>
        /\ UNCHANGED pageVars

Get(postId) ==
    LET out == TS_get(store, postId, chromeOk, sessOk)
    IN  /\ store' = out.st
        /\ last' = Call("get", postId, out)
        /\ hist' = [hist EXCEPT ![postId].gets = IF @ < 2 THEN @ + 1 ELSE @]
        /\ failed' = (failed \/ out.kind = "throw")
        /\ UNCHANGED <<chromeOk, sessOk>>
        /\ UNCHANGED pageVars

Clear(postId) ==
    LET out == TS_clear(store, postId, chromeOk, sessOk)
    IN  /\ store' = out.st
        /\ last' = Call("clear", postId, out)
        /\ hist' = [hist EXCEPT ![postId] =
                       [saved |-> 0, gets |-> 0, latest |-> 0, older |-> {}]]
        /\ failed' = (failed \/ out.kind = "throw")
        /\ UNCHANGED <<chromeOk, sessOk>>
        /\ UNCHANGED pageVars

\* The extension is reloaded or updated while the page stays open: from now
\* on every chrome.* call of this script throws.
ContextInvalidated ==
    /\ chromeOk
    /\ chromeOk' = FALSE
    /\ UNCHANGED <<store, sessOk, last, hist, failed>>
    /\ UNCHANGED pageVars

\* The page is loaded again in the same tab: a new instance of the script
\* starts with an empty in-memory map; both session storages keep their
\* content.
Reload ==
    /\ store' = [store EXCEPT !.timestamps = EmptyMap]
    /\ chromeOk' \in BOOLEAN
    /\ sessOk' \in BOOLEAN
    /\ last' = NoCall
    /\ hist' = [p \in Posts |-> [hist[p] EXCEPT !.saved = 0, !.gets = 0]]
    /\ UNCHANGED failed
    /\ UNCHANGED pageVars

\* An event of the user or the host page, or a call made by a caller of the
\* store, counted against MaxEvents.
Event(A) == events < MaxEvents /\ A /\ events' = events + 1

\* A step of the script itself (a timer, a callback): not counted.
Step(A) == A /\ UNCHANGED events

NextStore ==
    \/ \E p \in Posts, t \in Times : Event(Save(p, t))
    \/ \E p \in Posts : Event(Get(p))
    \/ \E p \in Posts : Event(Clear(p))
    \/ Event(ContextInvalidated)
    \/ Event(Reload)

SpecStore == InitStore /\ [][NextStore]_vars

\* ------------------------------------------------------------------------
\* Claims about the TimestampStore (checked under SpecStore)
\* ------------------------------------------------------------------------

\* C2: save(P, T) followed by get(P) returns T, and a second get(P) with no
\* save in between returns not found (retrieval is read-once).  (That no
\* call fails is claim C9: only runs in which none failed are looked at.)
C2_RoundTripReadOnce ==
    \A p \in Posts :
        (last.op = "get" /\ last.postId = p /\ ~failed /\ hist[p].saved # 0) =>
            /\ hist[p].gets = 1 => (last.kind = "value" /\ last.value = hist[p].saved)
            /\ hist[p].gets = 2 => last.kind = "null"

\* C6 as stated: get returns the in-memory value when present, otherwise the
\* chrome.storage.session value when present, otherwise the sessionStorage
\* value when present, otherwise not found; a value held by any tier is
\* returned.  (That no call fails is claim C9: only runs in which none failed
\* are looked at.)
C6_AnyTierValueReturned ==
    [][\A p \in Posts :
          (Get(p) /\ ~failed') =>
              IF Has(store.timestamps, p)
              THEN last'.kind = "value" /\ last'.value = store.timestamps[p]
              ELSE IF Has(store.chromeSession, ChromeKey(p))
              THEN last'.kind = "value" /\ last'.value = store.chromeSession[ChromeKey(p)]
              ELSE IF Has(store.sessionStorage, SessKey(p))
              THEN last'.kind = "value"
                   /\ NumberToString(last'.value) = store.sessionStorage[SessKey(p)]
              ELSE last'.kind = "null"]_vars

\* C6 (amended): get returns the in-memory value when present, removing it
\* from the map only; otherwise, when chrome.storage.session is available,
\* its value when present (removing it) and not found when absent, whatever
\* sessionStorage holds; otherwise, when chrome.storage.session is
\* unavailable, the sessionStorage value when present (removing it) and not
\* found when absent; and it fails when sessionStorage is unavailable too.
C6_GetTierOrder ==
    [][\A p \in Posts :
          Get(p) =>
              IF Has(store.timestamps, p)
              THEN /\ last'.kind = "value" /\ last'.value = store.timestamps[p]
                   /\ store' = [store EXCEPT !.timestamps = Delete(@, p)]
              ELSE IF chromeOk
              THEN IF Has(store.chromeSession, ChromeKey(p))
                   THEN /\ last'.kind = "value"
                        /\ last'.value = store.chromeSession[ChromeKey(p)]
                        /\ store' = [store EXCEPT !.chromeSession =
                                                      Delete(@, ChromeKey(p))]
                   ELSE last'.kind = "null" /\ store' = store
              ELSE IF sessOk
              THEN IF Has(store.sessionStorage, SessKey(p))
                   THEN /\ last'.kind = "value"
                        /\ NumberToString(last'.value) = store.sessionStorage[SessKey(p)]
                        /\ store' = [store EXCEPT !.sessionStorage =
                                                      Delete(@, SessKey(p))]
                   ELSE last'.kind = "null" /\ store' = store
              ELSE last'.kind = "throw" /\ store' = store]_vars

\* C6 witness: a get was served by each persistent tier in turn; here by the
\* fallback tier, with a value that had been written as a string.
C6_Witness ==
    last.op = "get" /\ last.kind = "value" /\ last.tier = "session" /\ last.value = 250

\* C7: after clear(P), P has no entry in any of the three tiers, and a
\* following get(P) returns not found.  (That no call fails is claim C9: only
\* runs in which none failed are looked at.)
C7_ClearRemovesAllTiers ==
    \A p \in Posts :
        /\ (last.op = "clear" /\ last.postId = p /\ ~failed) =>
               /\ ~Has(store.timestamps, p)
               /\ ~Has(store.chromeSession, ChromeKey(p))
               /\ ~Has(store.sessionStorage, SessKey(p))
        /\ (last.op = "get" /\ last.postId = p /\ ~failed /\ hist[p].latest = 0) =>
               last.kind = "null"

\* C8: a later save overwrites an earlier one: after save(P, T1) and then
\* save(P, T2), no later get(P) returns T1, whichever tier was available at
\* each call.  (That no call fails is claim C9: only runs in which none
\* failed are looked at.)
C8_LaterSaveOverwrites ==
    \A p \in Posts :
        (last.op = "get" /\ last.postId = p /\ last.kind = "value" /\ ~failed) =>
            last.value \notin hist[p].older

\* ------------------------------------------------------------------------
\* Enhancement alone (SpecEnhance): the host inserts and drops videos, the
\* script scans, callers enhance and clean up
\* ------------------------------------------------------------------------

NextEnhance ==
    \/ \E v \in Videos, p \in {"A", NoPost} : Step(InsertVideo(v, p, 250, TRUE))
    \/ \E v \in Videos : Step(RemoveVideo(v))
    \/ Step(Scan)
    \/ \E v \in Videos : Step(EnhanceVideo(v))
    \/ \E v \in Videos : Step(Cleanup(v))
    \/ \E v \in Videos : Step(GetSettles(v))
    \/ \E v \in Videos : Step(LoadedMetadata(v))
    \/ \E p \in {"A", NoPost} : Step(Navigate(p))

SpecEnhance == InitStore /\ [][NextEnhance]_vars

\* A video that was enhanced and is still wired has one overlay and one
\* wrapper; no video ever has more; an unmarked video has none.
OneOverlayOneWrapper ==
    \A v \in Videos :
        /\ video[v].overlays <= 1
        /\ video[v].wrappers <= 1
        /\ (video[v].igEnhanced /\ video[v].listening) =>
               (video[v].overlays = 1 /\ video[v].wrappers = 1)
        /\ ~video[v].igEnhanced => (video[v].overlays = 0 /\ video[v].wrappers = 0)

\* C1: after any sequence of scans, direct enhanceVideo calls and cleanups a
\* video has at most one overlay and at most one wrapper, and enhanceVideo on
\* a video that carries the marker changes nothing (but the count of calls).
C1_EnhancedAtMostOnce ==
    /\ []OneOverlayOneWrapper
    /\ [][\A v \in Videos :
             (EnhanceVideo(v) /\ video[v].igEnhanced) =>
                 /\ video' = [video EXCEPT ![v].calls = Min(@ + 1, 2)]
                 /\ UNCHANGED <<store, chromeOk, sessOk, last, hist, failed,
                                pathPost, prefs, saveDebounceTimer, owed, ui, loop, probe>>]_vars

\* C1 witness: enhanceVideo was called a second time on an enhanced video,
\* which still has its single overlay and single wrapper.
C1_Witness ==
    \E v \in Videos :
        /\ video[v].inDoc /\ video[v].igEnhanced /\ video[v].calls = 2
        /\ video[v].overlays = 1 /\ video[v].wrappers = 1

\* ------------------------------------------------------------------------
\* Saving and restoring positions (SpecRestore): the user plays videos and
\* clicks, the host navigates and inserts the videos of the opened post
\* ------------------------------------------------------------------------

NextRestore ==
    \/ \E v \in Videos, p \in {"A", NoPost}, d \in Durations :
           Event(InsertVideo(v, p, d, TRUE))
    \/ \E v \in Videos : Event(RemoveVideo(v))
    \/ Step(Scan)
    \/ \E v \in Videos : Step(GetSettles(v))
    \/ \E v \in Videos : Step(LoadedMetadata(v))
    \/ \E v \in Videos : Event(LoadStart(v))
    \/ \E v \in Videos, t \in Times : Event(TimeAdvance(v, t))
    \/ \E target \in ClickTargets : Event(HandleLinkClick(target))
    \/ Step(SaveDebounceElapsed)
    \/ \E p \in {"A", NoPost} : Event(Navigate(p))
    \/ Event(ContextInvalidated)

SpecRestore == InitStore /\ [][NextRestore]_vars

\* Where seekToSaved stands for a video that was owed position t.
Restored(v, t) ==
    LET vr == video[v]
    IN  /\ vr.restore.phase \in {"waitMeta", "done"}
        /\ vr.restore.time = t
        /\ vr.restore.phase = "done" =>
               (vr.seeks = 1 /\ vr.seekTo = Min(t, vr.duration - SEEK_END_BUFFER))
        /\ vr.restore.phase = "waitMeta" => (~vr.ready /\ vr.seeks = 0)

C5_RestoreNeverNegative ==
    \A v \in Videos :
        video[v].seeks >= 1 =>
            /\ video[v].seekTo = Min(video[v].restore.time,
                                     video[v].duration - SEEK_END_BUFFER)
            /\ video[v].seekTo <= video[v].duration - SEEK_END_BUFFER
            /\ video[v].seekTo >= 0

\* C5 (amended): on both paths the value written equals
\* min(T, D - SEEK_END_BUFFER) and never exceeds D - SEEK_END_BUFFER; it is
\* non-negative exactly when D >= SEEK_END_BUFFER: for a shorter video the
\* value written is negative, and the media element then stays at 0.
C5_RestoreClamp ==
    \A v \in Videos :
        video[v].seeks >= 1 =>
            /\ video[v].restore.path \in {"immediate", "deferred"}
            /\ video[v].restore.time > 0
            /\ video[v].seekTo = Min(video[v].restore.time,
                                     video[v].duration - SEEK_END_BUFFER)
            /\ video[v].seekTo <= video[v].duration - SEEK_END_BUFFER
            /\ (video[v].seekTo >= 0) <=> (video[v].duration >= SEEK_END_BUFFER)

\* C5 witness: a restore on the immediate path into a video shorter than
\* the end buffer wrote a negative value.
C5_Witness ==
    \E v \in Videos :
        /\ video[v].seeks = 1 /\ video[v].restore.path = "immediate"
        /\ video[v].duration = 30 /\ video[v].restore.time = 250
        /\ video[v].seekTo = 0 - 20

\* C9: no call of the TimestampStore lets an error out, whichever tier is
\* unavailable, and a failing save of one video does not keep
\* saveAllVideoTimestamps from saving the others: after a run every saveable
\* video's post is in the store.
C9_NoErrorSurfaces ==
    [][/\ ~failed'
       /\ \A target \in {"postLink", "actionButton"} :
              (HandleLinkClick(target) /\ ~saveDebounceTimer) =>
                  \A v \in Videos :
                      Saveable(v) =>
                          Has(store'.timestamps, GetPostId(pathPost, video[v]))]_vars

\* ------------------------------------------------------------------------
\* Sound (SpecSound): the user uses the mute buttons and volume sliders of
\* the overlays, the host page its own sound button
\* ------------------------------------------------------------------------

NextSound ==
    \/ \E v \in Videos, m \in BOOLEAN : Event(InsertVideo(v, NoPost, 250, m))
    \/ \E v \in Videos : Event(RemoveVideo(v))
    \/ Step(Scan)
    \/ \E v \in Videos : Event(Cleanup(v))
    \/ \E v \in Videos : Event(MuteClick(v))
    \/ \E v \in Videos, value \in Volumes : Event(VolumeInput(v, value))
    \/ \E v \in Videos : Event(HostMute(v))

SpecSound == InitStore /\ [][NextSound]_vars

\* C4: once the user has unmuted a video through an overlay (mute button,
\* or volume slider above 0), every video enhanced afterwards is set to
\* muted = false and volume = Preferences.volume, until the user mutes through
\* an overlay; while Preferences.muted is true, enhancement leaves the
\* video's muted and volume as they are.
C4_MutePersistence ==
    /\ [](/\ ui.sound = "unmuted" => ~prefs.muted
          /\ ui.sound = "muted" => prefs.muted)
    /\ [][\A v \in Videos :
              (~video[v].igEnhanced /\ video'[v].igEnhanced) =>
                  /\ ui.sound = "unmuted" =>
                         (~video'[v].muted /\ video'[v].volume = prefs.volume)
                  /\ prefs.muted =>
                         /\ video'[v].muted = video[v].muted
                         /\ video'[v].volume = video[v].volume]_vars

\* C4 witness: after the user set another video's slider to 0.5, a video
\* inserted muted was enhanced and stands unmuted at volume 0.5.
C4_Witness ==
    \E v \in Videos :
        /\ ui.sound = "unmuted" /\ ui.video # v
        /\ video[v].igEnhanced /\ video[v].sound = "applied"
        /\ ~video[v].muted /\ video[v].volume = 50 /\ prefs.volume = 50

\* What the slider's listener has written to Preferences after a step.
PreferencesWritten(v) ==
    /\ prefs'.volume = video'[v].volume
    /\ prefs'.muted = video'[v].muted

\* C10 as stated: volume 0 through the slider makes muted true; a volume > 0
\* while the video is muted leaves muted as it is; in both cases the video's
\* volume and muted are what is written to Preferences.
C10_VolumeAboveZeroKeepsMuted ==
    [][\A v \in Videos, value \in Volumes :
           VolumeInput(v, value) =>
               /\ video'[v].volume = value
               /\ value = 0 => video'[v].muted
               /\ (value > 0 /\ video[v].muted) => video'[v].muted
               /\ PreferencesWritten(v)]_vars

\* C10 (amended): volume 0 through the slider makes muted true and any
\* volume > 0 makes muted false, whatever it was (the slider unmutes a muted
\* video); in both cases the video's volume and muted are what is written to
\* Preferences.
C10_VolumeSetsMuted ==
    [][\A v \in Videos, value \in Volumes :
           VolumeInput(v, value) =>
               /\ video'[v].volume = value
               /\ value = 0 => video'[v].muted
               /\ value > 0 => ~video'[v].muted
               /\ PreferencesWritten(v)]_vars

\* C10 witness: the slider of a muted video was set to 0.5; the video is
\* unmuted, and Preferences hold muted = false and volume = 0.5.
C10_Witness ==
    /\ ui.op = "volume" /\ ui.wasMuted
    /\ ~video[ui.video].muted /\ video[ui.video].volume = 50
    /\ prefs = [muted |-> FALSE, volume |-> 50]

\* ------------------------------------------------------------------------
\* getPostId on its own (SpecPostId): every location path and every element
\* of small sets
\* ------------------------------------------------------------------------

\* The characters of the class [A-Za-z0-9_-].
IdChars ==
    {"A", "B", "C", "D", "E", "F", "G", "H", "I", "J", "K", "L", "M", "N", "O",
     "P", "Q", "R", "S", "T", "U", "V", "W", "X", "Y", "Z",
     "a", "b", "c", "d", "e", "f", "g", "h", "i", "j", "k", "l", "m", "n", "o",
     "p", "q", "r", "s", "t", "u", "v", "w", "x", "y", "z",
     "0", "1", "2", "3", "4", "5", "6", "7", "8", "9", "_", "-"}

\* Length of the run of [A-Za-z0-9_-] characters of s that starts at index i.
RECURSIVE IdRun(_, _)
IdRun(s, i) ==
    IF i <= Len(s) /\ s[i] \in IdChars THEN 1 + IdRun(s, i + 1) ELSE 0

\* s holds t from index i on.
StartsAt(s, i, t) ==
    i + Len(t) - 1 <= Len(s) /\ SubSeq(s, i, i + Len(t) - 1) = t

\* String.prototype.match found nothing (null).
NoMatch == <<>>

\* The match of /\/(p|reel)\/([A-Za-z0-9_-]+)/ that starts at index i of s:
\* its second group, or NoMatch.
MatchAt(s, i) ==
    LET group(t) == IF StartsAt(s, i, t) /\ IdRun(s, i + Len(t)) > 0
                    THEN SubSeq(s, i + Len(t), i + Len(t) + IdRun(s, i + Len(t)) - 1)
                    ELSE NoMatch
    IN  IF group(<<"/", "p", "/">>) # NoMatch
        THEN group(<<"/", "p", "/">>)
        ELSE group(<<"/", "r", "e", "e", "l", "/">>)

\* The leftmost match from index i on.
RECURSIVE MatchFrom(_, _)
MatchFrom(s, i) ==
    IF i > Len(s) THEN NoMatch
    ELSE IF MatchAt(s, i) # NoMatch THEN MatchAt(s, i)
    ELSE MatchFrom(s, i + 1)

\* s.match(/\/(p|reel)\/([A-Za-z0-9_-]+)/)[2], or NoMatch
PostMatch(s) == MatchFrom(s, 1)

\* querySelector('a[href*="/p/"], a[href*="/reel/"]') found no link.
NoLink == <<>>

\* The hrefs of links that the selector accepts.
HrefPostA == <<"h", "t", "t", "p", "s", ":", "/", "/", "i", "g", "/", "p", "/", "A", "1", "/">>
HrefReelB == <<"/", "r", "e", "e", "l", "/", "B", "_", "2", "/">>
HrefNoId  == <<"/", "p", "/", "?", "x">>
HrefLate  == <<"/", "r", "e", "e", "l", "s", "/", "p", "/", "-", "c">>
Hrefs == {HrefPostA, HrefReelB, HrefNoId, HrefLate}

\* Values of location.pathname.
PathHome    == <<"/">>
PathPostA   == <<"/", "p", "/", "A", "1", "/">>
PathReelB   == <<"/", "r", "e", "e", "l", "/", "B", "_", "2", "/">>
PathExplore == <<"/", "e", "x", "p", "l", "o", "r", "e", "/">>
PathNoId    == <<"/", "p", "/">>
PathNested  == <<"/", "u", "/", "p", "/", "C", "/", "c", "/">>
Pathnames == {PathHome, PathPostA, PathReelB, PathExplore, PathNoId, PathNested}

\* Number of nodes from the element up to the child of document.body.
Depth == 3

\* An element as getPostId sees it: parents[k] is the href of the first link
\* the selector finds under the k-th node walking up from the element
\* (the element itself is the first), and articleAt the index of the closest
\* article among these nodes (0: none).  A video has no links below it, and a
\* link found under a node is under every node above it.
Elements ==
    {el \in [parents : [1..Depth -> Hrefs \cup {NoLink}], articleAt : 0..Depth] :
        /\ el.parents[1] = NoLink
        /\ el.articleAt # 1
        /\ \A k \in 1..(Depth - 1) :
               el.parents[k] # NoLink => el.parents[k + 1] # NoLink}

\* The loop "while (parent && parent !== document.body)" from the k-th node.
RECURSIVE WalkUp(_, _)
WalkUp(parents, k) ==
    IF k > Len(parents) THEN NoMatch
    ELSE IF parents[k] # NoLink /\ PostMatch(parents[k]) # NoMatch
    THEN PostMatch(parents[k])
    ELSE WalkUp(parents, k + 1)

\* The link step of getPostId: the article's link, then the walk up.
LinkPostId(el) ==
    LET link == IF el.articleAt = 0 THEN NoLink ELSE el.parents[el.articleAt]
    IN  IF link # NoLink /\ PostMatch(link) # NoMatch
        THEN PostMatch(link)
        ELSE WalkUp(el.parents, 1)

\* getPostId that looks at the links before the location.
GetPostIdOf_LinksFirst(pathname, el) ==
    IF LinkPostId(el) # NoMatch THEN LinkPostId(el) ELSE PostMatch(pathname)

\* getPostId(element) with window.location.pathname = pathname
GetPostIdOf(pathname, el) ==
    IF PostMatch(pathname) # NoMatch THEN PostMatch(pathname) ELSE LinkPostId(el)

\* Everything but probe.
programVars == <<store, chromeOk, sessOk, last, hist, failed, video, pathPost,
                 prefs, saveDebounceTimer, owed, ui, loop>>

InitPostId ==
    /\ InitProgram
    /\ probe \in [fn : {"getPostId"}, pathname : Pathnames, element : Elements,
                  done : {FALSE}, result : {NoMatch}]

\* The call getPostId(element) returns.
CallGetPostId ==
    /\ probe.fn = "getPostId" /\ ~probe.done
    /\ probe' = [probe EXCEPT !.done = TRUE,
                              !.result = GetPostIdOf(probe.pathname, probe.element)]
    /\ UNCHANGED programVars

NextPostId == Step(CallGetPostId)

SpecPostId == InitPostId /\ [][NextPostId]_vars

\* The identifier a reader finds in each href and pathname of the sets above.
IdIn(s) ==
    CASE s \in {HrefPostA, PathPostA} -> <<"A", "1">>
      [] s \in {HrefReelB, PathReelB} -> <<"B", "_", "2">>
      [] s = HrefLate -> <<"-", "c">>
      [] s = PathNested -> <<"C">>
      [] OTHER -> NoMatch

\* C14: getPostId returns the identifier of the location path whenever the
\* path matches, whatever links the article or the ancestors hold; else the
\* identifier of the article's link; else that of the first matching link
\* walking up the ancestors; and null when nothing matches.
C14_PostIdPrecedence ==
    (probe.fn = "getPostId" /\ probe.done) =>
        LET el    == probe.element
            art   == IF el.articleAt = 0 THEN NoMatch ELSE IdIn(el.parents[el.articleAt])
            found == {k \in 1..Depth : IdIn(el.parents[k]) # NoMatch}
            first == CHOOSE k \in found : \A j \in found : k <= j
        IN  probe.result =
                IF IdIn(probe.pathname) # NoMatch THEN IdIn(probe.pathname)
                ELSE IF art # NoMatch THEN art
                ELSE IF found # {} THEN IdIn(el.parents[first])
                ELSE NoMatch

\* C14 witness: on the page of reel B_2, a video inside an article whose
\* link names post A1 resolves to B_2.
C14_Witness ==
    /\ probe.fn = "getPostId" /\ probe.done
    /\ probe.pathname = PathReelB
    /\ probe.element.articleAt = 3 /\ probe.element.parents[3] = HrefPostA
    /\ probe.result = <<"B", "_", "2">>

\* ------------------------------------------------------------------------
\* Preferences.load() at the start of the script (SpecLoad): sessionStorage
\* holds any of a small set of strings, or nothing, under the two keys
\* ------------------------------------------------------------------------

\* sessionStorage.getItem(key): the item, or NullItem (null) when absent.
NullItem == <<"null">>

GetItem(ss, key) == IF Has(ss, key) THEN ss[key] ELSE NullItem

\* Contents of the key ig_enhancer_muted.
MutedItems ==
    {<<"t", "r", "u", "e">>, <<"f", "a", "l", "s", "e">>, <<"y", "e", "s">>,
     <<"T", "R", "U", "E">>, <<>>}

\* Contents of the key ig_enhancer_volume.
VolumeItems ==
    {<<"0", ".", "5">>, <<"1">>, <<"0">>, <<"a", "b", "c">>, <<"5">>,
     <<"-", "1">>, <<>>}

\* sessionStorage with the two items (NullItem: the key is absent).
WithItems(m, v) ==
    LET ss1 == IF m = NullItem THEN EmptyMap ELSE Put(EmptyMap, "ig_enhancer_muted", m)
    IN  IF v = NullItem THEN ss1 ELSE Put(ss1, "ig_enhancer_volume", v)

\* Preferences.load(): nothing when sessionStorage throws; else each field
\* from its item when there is one.
PreferencesLoad(pr, ss, sOk) ==
    IF ~sOk THEN pr
    ELSE LET muted  == GetItem(ss, "ig_enhancer_muted")
             volume == GetItem(ss, "ig_enhancer_volume")
         IN  [muted  |-> IF muted # NullItem THEN muted = <<"t", "r", "u", "e">>
                         ELSE pr.muted,
              volume |-> IF volume # NullItem THEN ParseFloat(volume)
                         ELSE pr.volume]

InitLoad ==
    /\ chromeOk \in BOOLEAN
    /\ sessOk \in BOOLEAN
    /\ \E m \in MutedItems \cup {NullItem}, v \in VolumeItems \cup {NullItem} :
           store = [EmptyStore EXCEPT !.sessionStorage = WithItems(m, v)]
    /\ last = NoCall
    /\ hist = NoHist
    /\ failed = FALSE
    /\ InitPage
    /\ events = 0
    /\ probe = [fn |-> "load", done |-> FALSE]

\* Preferences.load() runs.
LoadPreferences ==
    /\ probe.fn = "load" /\ ~probe.done
    /\ prefs' = PreferencesLoad(prefs, store.sessionStorage, sessOk)
    /\ probe' = [probe EXCEPT !.done = TRUE]
    /\ UNCHANGED <<video, pathPost, saveDebounceTimer, owed, ui, loop>>
    /\ UNCHANGED storeVars

NextLoad == Step(LoadPreferences)

SpecLoad == InitLoad /\ [][NextLoad]_vars

\* C17: after Preferences.load, a setting whose item is absent or malformed
\* has its default (muted = true, volume = 1), muted is a boolean and volume
\* a number in [0, 1], whatever the two keys hold.
C17_LoadFallsBackToDefault ==
    (probe.fn = "load" /\ probe.done) =>
        LET muted  == GetItem(store.sessionStorage, "ig_enhancer_muted")
            volume == GetItem(store.sessionStorage, "ig_enhancer_volume")
        IN  /\ muted \notin {<<"t", "r", "u", "e">>, <<"f", "a", "l", "s", "e">>}
                   => prefs.muted = TRUE
            /\ volume \notin {<<"0", ".", "5">>, <<"1">>, <<"0">>}
                   => prefs.volume = Scale
            /\ prefs.muted \in BOOLEAN
            /\ prefs.volume # NaN /\ prefs.volume >= 0 /\ prefs.volume <= Scale

\* ------------------------------------------------------------------------
\* Keyboard seeking (SpecKeys): the user scrolls, plays, pauses, seeks and
\* presses keys
\* ------------------------------------------------------------------------

\* CONFIG.SEEK_SECONDS: 10 s.
SEEK_SECONDS == 10 * Scale

\* Durations and positions around the 10 s step.
KeyDurations == {250, 3000}
KeyTimes == {300, 2950}

\* The user scrolls: video v enters or leaves the viewport.
Scroll(v) ==
    /\ video[v].inDoc
    /\ video' = [video EXCEPT ![v].visible = ~@]
    /\ UNCHANGED <<pathPost, prefs, saveDebounceTimer, owed, ui, loop, probe>>
    /\ UNCHANGED storeVars

\* The video starts or stops playing (the user, or the host page).
PlayPause(v) ==
    /\ video[v].inDoc
    /\ video' = [video EXCEPT ![v].paused = ~@]
    /\ UNCHANGED <<pathPost, prefs, saveDebounceTimer, owed, ui, loop, probe>>
    /\ UNCHANGED storeVars

\* video.duration: NaN until the metadata is there.
DurationOf(vr) == IF vr.ready THEN vr.duration ELSE NaN

\* The first video of the document, in document order, among vs (0: none).
FirstOf(vs) == IF vs = {} THEN 0 ELSE CHOOSE v \in vs : \A w \in vs : v <= w

\* The video the keydown listener picks: the first visible one that plays,
\* else the first visible one.
ActiveVideo ==
    LET playing == FirstOf({v \in Videos : video[v].inDoc /\ video[v].visible
                                            /\ ~video[v].paused})
    IN  IF playing # 0 THEN playing
        ELSE FirstOf({v \in Videos : video[v].inDoc /\ video[v].visible})

\* A seek that is cut at the duration but not at 0.
KeySeekTarget_NoFloor(vr, skip) == Min(vr.duration, vr.currentTime + skip)

\* Math.max(0, Math.min(activeVideo.duration, activeVideo.currentTime + skip))
KeySeekTarget(vr, skip) == Max(0, Min(vr.duration, vr.currentTime + skip))

Keys == {"ArrowLeft", "ArrowRight", "Enter"}

\* The keydown listener of the document; typing: the target is an input, a
\* textarea or editable content.
KeyDown(key, typing) ==
    LET a    == ActiveVideo
        skip == IF key = "ArrowRight" THEN SEEK_SECONDS ELSE 0 - SEEK_SECONDS
    IN  /\ IF /\ ~typing /\ key \in {"ArrowLeft", "ArrowRight"} /\ a # 0
              /\ DurationOf(video[a]) # NaN /\ DurationOf(video[a]) # 0
           THEN LET x == KeySeekTarget(video[a], skip)
                IN  /\ video' = [video EXCEPT ![a] = SetCurrentTime(@, x)]
                    /\ probe' = [fn |-> "keydown", key |-> key, video |-> a,
                                 from |-> video[a].currentTime, wrote |-> x]
           ELSE UNCHANGED <<video, probe>>
        /\ UNCHANGED <<pathPost, prefs, saveDebounceTimer, owed, ui, loop>>
        /\ UNCHANGED storeVars

NextKeys ==
    \/ \E v \in Videos, d \in KeyDurations : Event(InsertVideo(v, NoPost, d, TRUE))
    \/ \E v \in Videos : Event(RemoveVideo(v))
    \/ \E v \in Videos : Step(LoadedMetadata(v))
    \/ \E v \in Videos, t \in KeyTimes : Event(TimeAdvance(v, t))
    \/ \E v \in Videos : Event(Scroll(v))
    \/ \E v \in Videos : Event(PlayPause(v))
    \/ \E key \in Keys, typing \in BOOLEAN : Event(KeyDown(key, typing))

SpecKeys == InitStore /\ [][NextKeys]_vars

\* C18: an arrow key pressed outside a text field moves the active video
\* (the first visible playing one, else the first visible one) to its
\* position plus or minus SEEK_SECONDS, cut to [0, duration]; the value is
\* never below 0 nor above the duration; no other video changes; and nothing
\* changes when there is no active video with a duration, or the key is
\* typed into a field.
C18_KeyboardSeekClamped ==
    [][\A key \in {"ArrowLeft", "ArrowRight"}, typing \in BOOLEAN :
           KeyDown(key, typing) =>
               LET seen    == {v \in Videos : video[v].inDoc /\ video[v].visible}
                   playing == {v \in seen : ~video[v].paused}
                   pick    == IF playing # {} THEN playing ELSE seen
                   a       == CHOOSE v \in pick : \A w \in pick : v <= w
                   moved   == video[a].currentTime
                                 + (IF key = "ArrowRight" THEN 1000 ELSE 0 - 1000)
                   D       == video[a].duration
               IN  IF ~typing /\ pick # {} /\ video[a].ready /\ D > 0
                   THEN /\ probe'.wrote = (IF moved < 0 THEN 0
                                           ELSE IF moved > D THEN D ELSE moved)
                        /\ probe'.wrote >= 0 /\ probe'.wrote <= D
                        /\ video'[a].currentTime = probe'.wrote
                        /\ \A w \in Videos \ {a} : video'[w] = video[w]
                   ELSE video' = video]_vars

\* C18 witness: ArrowLeft at position 3 s of a 30 s video: position 0.
C18_Witness ==
    /\ probe.fn = "keydown" /\ probe.key = "ArrowLeft"
    /\ probe.from = 300 /\ probe.wrote = 0
    /\ video[probe.video].duration = 3000
    /\ video[probe.video].currentTime = 0

\* ------------------------------------------------------------------------
\* The seek control of the overlay (SpecSeekBar): playback reports the
\* position, the user drags and releases the control, callers clean up
\* ------------------------------------------------------------------------

\* formatTime(seconds)
FormatTime(seconds) ==
    IF seconds = NaN \/ seconds < 0 THEN <<"0", ":", "0", "0">>
    ELSE LET whole == seconds \div Scale
             mins  == whole \div 60
             secs  == whole % 60
         IN  NatToString(mins) \o <<":">>
                 \o (IF secs < 10 THEN <<"0">> ELSE <<>>) \o NatToString(secs)

\* (video.currentTime / video.duration) * 100
PercentOf(vr) == (vr.currentTime * 100 * Scale) \div vr.duration

\* (percent / 100) * video.duration; NaN while the duration is NaN.
SeekOf(percent, duration) ==
    IF duration = NaN THEN NaN ELSE (percent * duration) \div (100 * Scale)

\* updateProgress that does not look at isDragging.
UpdateProgress_IgnoresDrag(vr) ==
    IF DurationOf(vr) # NaN /\ DurationOf(vr) # 0
    THEN [vr EXCEPT !.progress = PercentOf(vr), !.label = FormatTime(vr.currentTime)]
    ELSE vr

\* updateProgress()
UpdateProgress(vr) ==
    IF ~vr.isDragging /\ DurationOf(vr) # NaN /\ DurationOf(vr) # 0
    THEN [vr EXCEPT !.progress = PercentOf(vr), !.label = FormatTime(vr.currentTime)]
    ELSE vr

\* The video fires timeupdate; the overlay's listener runs unless aborted.
TimeUpdate(v) ==
    /\ video[v].inDoc /\ video[v].ready
    /\ video' = [video EXCEPT ![v] = IF @.listening THEN UpdateProgress(@) ELSE @]
    /\ UNCHANGED <<pathPost, prefs, saveDebounceTimer, owed, ui, loop, probe>>
    /\ UNCHANGED storeVars

\* Values the user gives the seek control, in percent.
SliderValues == {0, 40 * Scale, 100 * Scale}

\* The seek control fires input: the user moves it to percent.
ProgressInput(v, percent) ==
    /\ Wired(v)
    /\ video' = [video EXCEPT ![v] =
                    [@ EXCEPT !.isDragging = TRUE, !.held = TRUE, !.moved = TRUE,
                              !.progress = percent,
                              !.label = FormatTime(SeekOf(percent,
                                                          DurationOf(video[v])))]]
    /\ UNCHANGED <<pathPost, prefs, saveDebounceTimer, owed, ui, loop, probe>>
    /\ UNCHANGED storeVars

\* The seek control fires change: the user has moved it and lets go of it.
\* Assigning NaN to video.currentTime throws a TypeError, which ends the
\* listener.
ProgressChange(v) ==
    /\ Wired(v) /\ video[v].moved
    /\ LET x == SeekOf(video[v].progress, DurationOf(video[v]))
       IN  IF x = NaN
           THEN /\ video' = [video EXCEPT ![v].held = FALSE, ![v].moved = FALSE]
                /\ failed' = TRUE
           ELSE /\ video' = [video EXCEPT ![v] =
                               [SetCurrentTime(@, x) EXCEPT !.isDragging = FALSE,
                                                            !.held = FALSE,
                                                            !.moved = FALSE]]
                /\ UNCHANGED failed
    /\ UNCHANGED <<pathPost, prefs, saveDebounceTimer, owed, ui, loop, probe>>
    /\ UNCHANGED <<store, chromeOk, sessOk, last, hist>>

\* mousedown on the seek control
ProgressMouseDown(v) ==
    /\ Wired(v)
    /\ video' = [video EXCEPT ![v].isDragging = TRUE, ![v].held = TRUE]
    /\ UNCHANGED <<pathPost, prefs, saveDebounceTimer, owed, ui, loop, probe>>
    /\ UNCHANGED storeVars

\* mouseup on the seek control
ProgressMouseUp(v) ==
    /\ Wired(v)
    /\ video' = [video EXCEPT ![v].isDragging = FALSE, ![v].held = FALSE]
    /\ UNCHANGED <<pathPost, prefs, saveDebounceTimer, owed, ui, loop, probe>>
    /\ UNCHANGED storeVars

NextSeekBar ==
    \/ \E v \in Videos, d \in Durations : Event(InsertVideo(v, NoPost, d, TRUE))
    \/ Step(Scan)
    \/ \E v \in Videos : Step(LoadedMetadata(v))
    \/ \E v \in Videos, t \in Times : Event(TimeAdvance(v, t))
    \/ \E v \in Videos : Step(TimeUpdate(v))
    \/ \E v \in Videos, percent \in SliderValues : Event(ProgressInput(v, percent))
    \/ \E v \in Videos : Event(ProgressChange(v))
    \/ \E v \in Videos : Event(ProgressMouseDown(v))
    \/ \E v \in Videos : Event(ProgressMouseUp(v))
    \/ \E v \in Videos : Event(Cleanup(v))

SpecSeekBar == InitStore /\ [][NextSeekBar]_vars

\* C16: while the user drags the seek control, timeupdate changes neither
\* its value nor the elapsed-time label; once the drag has ended (change or
\* mouseup), the next timeupdate sets both from the video's position; and
\* letting go of the control (change) sets video.currentTime to
\* (percent / 100) * duration.
C16_DragSuppressesUpdates ==
    [][\A v \in Videos :
           /\ (TimeUpdate(v) /\ video[v].held) =>
                  /\ video'[v].progress = video[v].progress
                  /\ video'[v].label = video[v].label
           /\ (TimeUpdate(v) /\ ~video[v].held /\ Wired(v)) =>
                  /\ video'[v].progress * video[v].duration
                         = video[v].currentTime * 100 * Scale
                  /\ video'[v].label = FormatTime(video[v].currentTime)
           /\ ProgressChange(v) =>
                  /\ ~failed'
                  /\ video'[v].currentTime * 100 * Scale
                         = video[v].progress * video[v].duration]_vars

\* ------------------------------------------------------------------------
\* Cleanup and the pending restore (SpecCleanup): a position is saved, the
\* videos of the post are enhanced, the user plays and uses the controls,
\* callers clean up
\* ------------------------------------------------------------------------

\* The cleanup of video v has run.
Cleaned(v) == video[v].inDoc /\ video[v].igEnhanced /\ ~video[v].listening

\* A caller runs video._igEnhancerCleanup(), for the first time or again.
CallCleanup(v) ==
    /\ video[v].inDoc /\ video[v].igEnhanced
    /\ video' = [video EXCEPT ![v] = CleanupOf(@)]
    /\ probe' = [fn |-> "cleanup", video |-> v, again |-> Cleaned(v)]
    /\ UNCHANGED <<pathPost, prefs, saveDebounceTimer, owed, ui, loop>>
    /\ UNCHANGED storeVars

NextCleanup ==
    \/ \E v \in Videos : Event(InsertVideo(v, "A", 250, TRUE))
    \/ Step(Scan)
    \/ \E v \in Videos : Step(GetSettles(v))
    \/ \E v \in Videos : Step(LoadedMetadata(v))
    \/ \E v \in Videos : Event(TimeAdvance(v, 250))
    \/ Event(HandleLinkClick("postLink"))
    \/ Step(SaveDebounceElapsed)
    \/ \E v \in Videos : Event(CallCleanup(v))
    \/ \E v \in Videos : Step(TimeUpdate(v))
    \/ \E v \in Videos : Event(MuteClick(v))
    \/ \E v \in Videos : Event(ProgressInput(v, 40 * Scale))
    \/ \E v \in Videos : Event(ProgressChange(v))

SpecCleanup == InitStore /\ [][NextCleanup]_vars

\* What the overlay of a video shows and holds.
OverlayState(vr) ==
    [overlays |-> vr.overlays, wrappers |-> vr.wrappers, listening |-> vr.listening,
     isDragging |-> vr.isDragging, progress |-> vr.progress, label |-> vr.label]

\* What cleanup does, and what cannot happen to a cleaned video: a step of
\* the overlay's controls, a change of the overlay, of the preferences
\* through the overlay, or of the video by timeupdate; and a second cleanup
\* changes nothing.
CleanupDetaches(v) ==
    /\ CallCleanup(v) =>
           /\ ~video'[v].listening
           /\ video'[v].overlays = 0 /\ video'[v].wrappers = 0
           /\ video'[v].igEnhanced
    /\ Cleaned(v) =>
           /\ OverlayState(video'[v]) = OverlayState(video[v])
           /\ prefs' # prefs => ui'.video # v
           /\ ~MuteClick(v) /\ ~ProgressChange(v)
           /\ ~ProgressInput(v, 40 * Scale)
           /\ TimeUpdate(v) => video'[v] = video[v]
           /\ CallCleanup(v) => video' = video

\* C15 as stated: cleanup detaches the overlay's listeners, removes the
\* overlay and unwraps the video; afterwards no event of the video or of the
\* controls changes the overlay, the video or the preferences (loadedmetadata
\* leaves the position of a cleaned video alone), and a second cleanup
\* changes nothing.
C15_NoEventAfterCleanup ==
    [][\A v \in Videos :
           /\ CleanupDetaches(v)
           /\ (Cleaned(v) /\ LoadedMetadata(v)) =>
                  video'[v].currentTime = video[v].currentTime]_vars

\* C15, amended: as above for the overlay and the preferences; the video is
\* not changed through the overlay's listeners, but loadedmetadata still
\* runs the once-listener of a restore that enhanceVideo left waiting, which
\* seeks the cleaned video to the saved position.
C15_CleanupDetachesOverlay ==
    [][\A v \in Videos :
           /\ CleanupDetaches(v)
           /\ (Cleaned(v) /\ LoadedMetadata(v)) =>
                  IF video[v].restore.phase = "waitMeta"
                  THEN video'[v].currentTime
                           = Max(0, Min(video[v].restore.time,
                                        video[v].duration - SEEK_END_BUFFER))
                  ELSE video'[v].currentTime = video[v].currentTime]_vars

\* A video was cleaned up twice while its restore waited for the metadata;
\* loadedmetadata then seeked it to the saved position, and its controls
\* were left at 0:00.
C15_Witness ==
    \E v \in Videos :
        /\ Cleaned(v) /\ probe = [fn |-> "cleanup", video |-> v, again |-> TRUE]
        /\ video[v].overlays = 0 /\ video[v].wrappers = 0
        /\ video[v].restore.phase = "done" /\ video[v].restore.path = "deferred"
        /\ video[v].restore.cleaned
        /\ video[v].ready /\ video[v].currentTime = 200
        /\ video[v].progress = 0 /\ video[v].label = <<"0", ":", "0", "0">>

\* The position a pending restore of video v seeks to for saved time t.
StaleTarget(v, t) == Max(0, Min(t, video[v].duration - SEEK_END_BUFFER))

\* C19: from the start of the read to the restore seek the user can seek the
\* video, and nothing cancels the restore, not a seek of the user and not the
\* cleanup of the video: a read in flight stays in flight until it settles
\* and then hands the saved time to seekToSaved, a waiting once-listener
\* keeps waiting for loadedmetadata, and the step that ends the restore
\* writes the saved position (cut to duration - SEEK_END_BUFFER) over
\* whatever position the user chose meanwhile.
C19_StaleRestoreOverrides ==
    [][\A v \in Videos :
           LET r  == video[v].restore
               r2 == video'[v].restore
           IN  /\ r.phase = "reading" =>
                      \/ r2.phase = "reading" /\ r2.read = r.read
                      \/ GetSettles(v)
               /\ (GetSettles(v) /\ chromeOk /\ r.read.has /\ r.read.value > 0) =>
                      /\ r2.phase \in {"waitMeta", "done"}
                      /\ r2.time = r.read.value
               /\ r.phase = "waitMeta" =>
                      \/ r2.phase = "waitMeta" /\ r2.time = r.time
                      \/ LoadedMetadata(v) /\ r2.phase = "done" /\ r2.time = r.time
               /\ (r.phase \in {"reading", "waitMeta"} /\ r2.phase = "done") =>
                      /\ video'[v].currentTime = StaleTarget(v, r2.time)
                      /\ r2.manual = r.manual
                      /\ r2.was = video[v].currentTime]_vars

\* The user moved a video to 2.5 s while its read was in flight, the video
\* was cleaned up, and the restore then moved it from there to the saved
\* position.
C19_Witness ==
    \E v \in Videos :
        /\ video[v].restore.phase = "done" /\ video[v].restore.cleaned
        /\ video[v].restore.manual = 250 /\ video[v].restore.was = 250
        /\ video[v].seekTo # 250
        /\ video[v].currentTime = video[v].seekTo

\* ------------------------------------------------------------------------
\* The discovery loop (SpecDiscover): init() scans and starts the observer,
\* the host page inserts and removes videos, re-renders and navigates, the
\* user goes back and forward, the timers fire
\* ------------------------------------------------------------------------

\* The observer takes a record of a DOM change, once init() has started it.
Note(l, kind) ==
    IF ~l.started THEN l
    ELSE [l EXCEPT !.records = IF kind = "video" \/ @ = "video" THEN "video"
                               ELSE "other"]

\* The host page inserts a video element.
HostInsert(v, p, d) ==
    /\ ~video[v].inDoc
    /\ video' = [video EXCEPT ![v] =
                    [FreshVideo EXCEPT !.inDoc = TRUE, !.link = p, !.duration = d]]
    /\ loop' = Note(loop, "video")
    /\ UNCHANGED <<pathPost, prefs, saveDebounceTimer, owed, ui, probe>>
    /\ UNCHANGED storeVars

\* The host page drops a video element; the element is not used again.
HostRemove(v) ==
    /\ video[v].inDoc
    /\ video' = [video EXCEPT ![v] = FreshVideo]
    /\ loop' = Note(loop, "other")
    /\ UNCHANGED <<pathPost, prefs, saveDebounceTimer, owed, ui, probe>>
    /\ UNCHANGED storeVars

\* The host page changes the document elsewhere.
HostRender ==
    /\ loop.started /\ loop.records = "none"
    /\ loop' = Note(loop, "other")
    /\ UNCHANGED <<video, pathPost, prefs, saveDebounceTimer, owed, ui, probe>>
    /\ UNCHANGED storeVars

\* A scan that changes the document around the videos even when it finds
\* none to enhance.
LoopScan_AlwaysNotes(l, by) ==
    /\ Commit(ScanFrom(Here, 1))
    /\ loop' = [Note(l, "video") EXCEPT !.enhancedBy = by]
    /\ UNCHANGED <<pathPost, prefs, saveDebounceTimer, ui, probe>>
    /\ UNCHANGED <<chromeOk, sessOk, last, hist>>

\* scanForVideos() run by the loop: the wrapper and the controls that
\* enhanceVideo inserts are DOM changes too, and the wrapper holds a video.
LoopScan(l, by) ==
    LET S == ScanFrom(Here, 1)
    IN  /\ Commit(S)
        /\ loop' = IF \E v \in Videos : S.video[v].igEnhanced /\ ~video[v].igEnhanced
                   THEN [Note(l, "video") EXCEPT !.enhancedBy = by] ELSE l
        /\ UNCHANGED <<pathPost, prefs, saveDebounceTimer, ui, probe>>
        /\ UNCHANGED <<chromeOk, sessOk, last, hist>>

\* init(): the first scan, made before the observer is started, then the
\* observer and the listeners.
InitRuns ==
    /\ ~loop.started
    /\ Commit(ScanFrom(Here, 1))
    /\ loop' = [loop EXCEPT !.started = TRUE, !.lastUrl = pathPost,
                            !.enhancedBy = IF \E v \in Videos : video[v].inDoc
                                           THEN "init" ELSE @]
    /\ UNCHANGED <<pathPost, prefs, saveDebounceTimer, ui, probe>>
    /\ UNCHANGED <<chromeOk, sessOk, last, hist>>

\* A debounce that sets a new timer and leaves the pending one.
DebounceScan_NoClear(l) ==
    [l EXCEPT !.scanLive = @ + 1, !.burst = @ + 1, !.asked = "debounce"]

\* clearTimeout(observer._scanTimeout); observer._scanTimeout =
\* setTimeout(scanForVideos, SCAN_DEBOUNCE_MS)
DebounceScan(l) ==
    [l EXCEPT !.scanLive = (IF @ > 0 THEN @ - 1 ELSE 0) + 1, !.burst = @ + 1,
              !.asked = "debounce"]

\* A navigation rescan that replaces the pending one.
DelayScan_Debounced(l) == [l EXCEPT !.navLive = 1, !.asked = "navigation"]

\* setTimeout(scanForVideos, NAVIGATION_SCAN_DELAY_MS)
DelayScan(l) == [l EXCEPT !.navLive = @ + 1, !.asked = "navigation"]

\* A callback that notes the new location and schedules nothing.
ObserverCallback_NoRescanOnChange ==
    /\ loop.started /\ loop.records # "none"
    /\ LET l == [loop EXCEPT !.records = "none", !.asked = "none"]
       IN  loop' = IF pathPost # loop.lastUrl
                   THEN [l EXCEPT !.lastUrl = pathPost]
                   ELSE IF loop.records = "video" THEN DebounceScan(l)
                   ELSE l
    /\ UNCHANGED <<video, pathPost, prefs, saveDebounceTimer, owed, ui, probe>>
    /\ UNCHANGED storeVars

\* The MutationObserver callback, run with the queued records once the task
\* that made the changes has ended.
ObserverCallback ==
    /\ loop.started /\ loop.records # "none"
    /\ LET l == [loop EXCEPT !.records = "none", !.asked = "none"]
       IN  loop' = IF pathPost # loop.lastUrl
                   THEN DelayScan([l EXCEPT !.lastUrl = pathPost])
                   ELSE IF loop.records = "video" THEN DebounceScan(l)
                   ELSE l
    /\ UNCHANGED <<video, pathPost, prefs, saveDebounceTimer, owed, ui, probe>>
    /\ UNCHANGED storeVars

\* The timer of the debounced scan fires.
ScanTimeoutFires ==
    /\ loop.records = "none" /\ loop.scanLive > 0
    /\ LoopScan([loop EXCEPT !.scanLive = @ - 1, !.coalesced = loop.burst,
                             !.burst = 0], "debounce")

\* A timer of a navigation rescan fires.
NavTimeoutFires ==
    /\ loop.records = "none" /\ loop.navLive > 0
    /\ LoopScan([loop EXCEPT !.navLive = @ - 1], "navigation")

\* A popstate listener that schedules the rescan and saves nothing.
PopState_NoSave ==
    /\ loop.started /\ loop.records = "none"
    /\ loop' = DelayScan(loop)
    /\ UNCHANGED <<video, pathPost, prefs, saveDebounceTimer, owed, ui, probe>>
    /\ UNCHANGED storeVars

\* The user goes back or forward in the history (the location has changed by
\* then, see Navigate): the popstate listener runs.  An exception thrown by
\* saveAllVideoTimestamps ends the listener before its setTimeout.
PopState ==
    /\ loop.started /\ loop.records = "none"
    /\ SaveAllVideoTimestamps
    /\ LET threw == /\ ~saveDebounceTimer
                    /\ SaveFrom(Outcome(store, "done", 0, "none"), 1).kind = "throw"
       IN  loop' = IF threw THEN [loop EXCEPT !.asked = "threw"] ELSE DelayScan(loop)
    /\ UNCHANGED <<video, pathPost, prefs, owed, ui, probe>>
    /\ UNCHANGED <<chromeOk, sessOk, last, hist>>

NextDiscover ==
    \/ \E v \in Videos : Event(HostInsert(v, "A", 250))
    \/ \E v \in Videos : Event(HostRemove(v))
    \/ Event(HostRender)
    \/ \E p \in {"A", NoPost} : Event(Navigate(p))
    \/ Event(PopState)
    \/ Step(InitRuns)
    \/ Step(ObserverCallback)
    \/ Step(ScanTimeoutFires)
    \/ Step(NavTimeoutFires)
    \/ Step(SaveDebounceElapsed)

SpecDiscover == InitStore /\ [][NextDiscover]_vars

\* The callback finds the location changed.
DetectsChange == ObserverCallback /\ pathPost # loop.lastUrl

\* The callback finds the location as before and an inserted video.
DetectsVideo ==
    ObserverCallback /\ pathPost = loop.lastUrl /\ loop.records = "video"

\* C11: of the callbacks that report an inserted video and no location
\* change, each cancels the pending debounce timer and sets a new one, so
\* exactly one timer is pending while a burst lasts and none otherwise; no
\* callback scans; the scan runs once, when the timer set by the last
\* callback of the burst fires, and ends the burst.
C11_DebounceCoalesces ==
    [][/\ loop.scanLive = (IF loop.burst > 0 THEN 1 ELSE 0)
       /\ DetectsVideo =>
              /\ loop'.scanLive = 1
              /\ loop'.burst = loop.burst + 1
              /\ video' = video
       /\ ScanTimeoutFires =>
              /\ loop.burst >= 1
              /\ loop'.coalesced = loop.burst
              /\ loop'.burst = 0 /\ loop'.scanLive = 0
       /\ loop'.coalesced # loop.coalesced => ScanTimeoutFires]_vars

\* Three callbacks reported a video before the timer fired, and the one scan
\* that followed enhanced a video.
C11_Witness ==
    /\ loop.coalesced = 3 /\ loop.scanLive = 0 /\ loop.enhancedBy = "debounce"
    /\ \E v \in Videos : video[v].igEnhanced /\ video[v].overlays = 1

\* C12 as stated: at most one navigation rescan is pending at any time.
C12_AtMostOneNavigationRescan == loop.navLive <= 1

\* C12, amended: the navigation trigger is not debounced.  Every callback that
\* finds the location changed, and every popstate listener that reaches its
\* setTimeout, sets one more timer and leaves the pending ones (and the
\* debounce timer) alone; a popstate listener whose save throws sets none;
\* a pending navigation rescan goes away only by firing.
C12_NavigationRescansQueue ==
    [][/\ DetectsChange =>
              /\ loop'.navLive = loop.navLive + 1
              /\ loop'.scanLive = loop.scanLive
       /\ PopState =>
              /\ loop'.navLive = loop.navLive + (IF loop'.asked = "threw" THEN 0 ELSE 1)
              /\ loop'.scanLive = loop.scanLive
       /\ loop'.navLive < loop.navLive =>
              /\ NavTimeoutFires
              /\ loop'.navLive = loop.navLive - 1]_vars

\* Three navigation rescans are pending.
C12_Witness == loop.navLive = 3 /\ loop.asked = "navigation"

\* The scans of the loop come: init() has not run yet, or every video of the
\* document without the marker has a callback or a timer pending that leads
\* to a scan.
ScanOwed ==
    \/ ~loop.started
    \/ \A v \in Videos :
           (video[v].inDoc /\ ~video[v].igEnhanced) =>
               \/ loop.records = "video"
               \/ loop.scanLive > 0
               \/ loop.navLive > 0

\* The loop with the events that decide whether a video is scanned, and with
\* init(), the callback and the timers running whenever they can.
NextLive ==
    \/ \E v \in Videos : Event(HostInsert(v, "A", 250))
    \/ \E v \in Videos : Event(HostRemove(v))
    \/ \E p \in {"A", NoPost} : Event(Navigate(p))
    \/ Step(InitRuns)
    \/ Step(ObserverCallback)
    \/ Step(ScanTimeoutFires)
    \/ Step(NavTimeoutFires)

SpecDiscoverFair ==
    /\ InitStore /\ [][NextLive]_vars
    /\ WF_vars(Step(InitRuns))
    /\ WF_vars(Step(ObserverCallback))
    /\ WF_vars(Step(ScanTimeoutFires))
    /\ WF_vars(Step(NavTimeoutFires))

\* Some video of the document is not enhanced (marker set, overlay attached).
Unenhanced ==
    \E v \in Videos :
        video[v].inDoc /\ ~(video[v].igEnhanced /\ video[v].overlays = 1)

NextNavigate ==
    \/ \E v \in Videos : Event(HostInsert(v, "A", 250))
    \/ \E p \in {"A", NoPost} : Event(Navigate(p))
    \/ Event(PopState)
    \/ \E v \in Videos : Event(TimeAdvance(v, 250))
    \/ Step(InitRuns)
    \/ Step(ObserverCallback)
    \/ Step(ScanTimeoutFires)
    \/ Step(NavTimeoutFires)
    \/ Step(SaveDebounceElapsed)
    \/ \E v \in Videos : Step(LoadedMetadata(v))

SpecNavigate == InitStore /\ [][NextNavigate]_vars

\* C13 as stated: whenever the loop finds the location changed, in the
\* callback or through popstate, it schedules a navigation rescan and calls
\* saveAllVideoTimestamps (after which the timer of the save is running).
C13_LocationChangeSavesAndRescans ==
    [][(DetectsChange \/ PopState) =>
           /\ loop'.navLive = loop.navLive + 1
           /\ saveDebounceTimer']_vars

\* C13, amended: the callback that finds the location changed notes it and
\* schedules a navigation rescan, and saves nothing.  The popstate listener
\* calls saveAllVideoTimestamps first: while its timer runs nothing is
\* saved; else the timer is started and the position of every video the run
\* reaches is saved under its post; and then it schedules the rescan, unless
\* the save threw.
C13_OnlyPopStateSaves ==
    [][/\ DetectsChange =>
              /\ loop'.navLive = loop.navLive + 1
              /\ loop'.lastUrl = pathPost
              /\ store' = store /\ saveDebounceTimer' = saveDebounceTimer
       /\ PopState =>
              LET threw == ~saveDebounceTimer /\ ~(chromeOk \/ sessOk)
                               /\ \E v \in Videos : Saveable(v)
              IN  /\ saveDebounceTimer'
                  /\ saveDebounceTimer => store' = store
                  /\ ~saveDebounceTimer =>
                         \A v \in Reached :
                             LET p == GetPostId(pathPost, video[v])
                                 mine == {w \in Reached :
                                              GetPostId(pathPost, video[w]) = p}
                             IN  /\ Has(store'.timestamps, p)
                                 /\ store'.timestamps[p]
                                        = video[LastOf(mine)].currentTime
                  /\ loop'.navLive = loop.navLive + (IF threw THEN 0 ELSE 1)]_vars

\* The callback found the location changed and the popstate listener saved
\* the position of a playing video: two rescans are pending and 2.5 s is
\* stored for post A.
C13_Witness ==
    /\ loop.navLive = 2 /\ loop.lastUrl = "A" /\ pathPost = "A"
    /\ saveDebounceTimer
    /\ Has(store.timestamps, "A") /\ store.timestamps["A"] = 250

\* ------------------------------------------------------------------------
\* The throttle of saveAllVideoTimestamps (checked in SpecRestore, where the
\* clicks call it)
\* ------------------------------------------------------------------------

\* What the store holds for post p, in its three tiers.
Kept(st, p) ==
    [memory  |-> IF Has(st.timestamps, p) THEN st.timestamps[p] ELSE 0,
     chrome  |-> IF Has(st.chromeSession, ChromeKey(p))
                 THEN st.chromeSession[ChromeKey(p)] ELSE 0,
     session |-> IF Has(st.sessionStorage, SessKey(p))
                 THEN st.sessionStorage[SessKey(p)] ELSE <<>>]

\* The saveable videos that resolve to post p.
SaveableFor(p) == {v \in Videos : Saveable(v) /\ GetPostId(pathPost, video[v]) = p}

\* C22: a call of saveAllVideoTimestamps made while the timer of a call that
\* ran is still running saves nothing and leaves the timer as it is; a call
\* made when the timer is not running (none yet, or the 500 ms have elapsed)
\* runs and starts the timer; and a call that runs saves every video with
\* currentTime > 0 and a post id (the map then holds, per post, the position
\* of its last such video) and leaves the store as it was for every other
\* post.
C22_ThrottledSaveSavesAll ==
    [][\A target \in {"postLink", "actionButton"} :
           HandleLinkClick(target) =>
               IF saveDebounceTimer
               THEN store' = store /\ saveDebounceTimer'
               ELSE /\ saveDebounceTimer'
                    /\ \A p \in Posts :
                           IF SaveableFor(p) = {}
                           THEN Kept(store', p) = Kept(store, p)
                           ELSE Kept(store', p).memory
                                    = video[LastOf(SaveableFor(p))].currentTime]_vars

\* ------------------------------------------------------------------------
\* The loop and its own DOM changes (SpecCycle): the host page inserts
\* videos and navigates, callers clean up, and init(), the callback and the
\* timers run whenever they can
\* ------------------------------------------------------------------------

\* video._igEnhancerCleanup() called while the observer runs: removing the
\* controls is a DOM change, and unwrapping puts the video under its parent
\* again, which the observer takes as an added video.
LoopCleanup(v) ==
    /\ video[v].inDoc /\ video[v].igEnhanced
    /\ video' = [video EXCEPT ![v] = CleanupOf(@)]
    /\ loop' = IF video[v].wrappers > 0 THEN Note(loop, "video")
               ELSE IF video[v].overlays > 0 THEN Note(loop, "other")
               ELSE loop
    /\ probe' = [fn |-> "cleanup", video |-> v, again |-> Cleaned(v)]
    /\ UNCHANGED <<pathPost, prefs, saveDebounceTimer, owed, ui>>
    /\ UNCHANGED storeVars

NextCycle ==
    \/ \E v \in Videos : Event(HostInsert(v, "A", 250))
    \/ \E v \in Videos : Event(LoopCleanup(v))
    \/ \E p \in {"A", NoPost} : Event(Navigate(p))
    \/ Step(InitRuns)
    \/ Step(ObserverCallback)
    \/ Step(ScanTimeoutFires)
    \/ Step(NavTimeoutFires)

SpecCycle ==
    /\ InitStore /\ [][NextCycle]_vars
    /\ WF_vars(Step(InitRuns))
    /\ WF_vars(Step(ObserverCallback))
    /\ WF_vars(Step(ScanTimeoutFires))
    /\ WF_vars(Step(NavTimeoutFires))

\* init() has run and no callback and no rescan is pending.
Quiet ==
    /\ loop.started /\ loop.records = "none"
    /\ loop.scanLive = 0 /\ loop.navLive = 0

\* Some video is enhanced in this step.
Enhances == \E v \in Videos : ~video[v].igEnhanced /\ video'[v].igEnhanced

\* C21: the scan that enhances a video and the cleanup that unwraps one
\* are reported to the observer as an inserted video; a marked video is not
\* enhanced again, so a rescan that finds only marked videos changes nothing
\* and queues no record; and once the host page inserts nothing more, the
\* loop comes to rest with no callback and no rescan pending, for good.
C21_NoScanCycle ==
    /\ [][/\ (loop.started /\ Enhances) => loop'.records = "video"
          /\ \A v \in Videos :
                 /\ (LoopCleanup(v) /\ loop.started /\ video[v].wrappers > 0) =>
                        loop'.records = "video"
                 /\ video[v].igEnhanced =>
                        /\ video'[v].calls = video[v].calls
                        /\ video'[v].overlays <= video[v].overlays
                        /\ video'[v].wrappers <= video[v].wrappers
          /\ ((ScanTimeoutFires \/ NavTimeoutFires) /\ ~Enhances) =>
                 /\ video' = video
                 /\ loop'.records = "none"]_vars
    /\ <>[]Quiet

\* A debounced scan enhanced a video, the rescan that its wrapper brought
\* about found nothing, the video was cleaned up, and the rescan that the
\* unwrapping brought about found nothing either: the loop is at rest.
C21_Witness ==
    /\ Quiet /\ loop.enhancedBy = "debounce" /\ loop.coalesced = 1
    /\ probe.fn = "cleanup" /\ ~probe.again
    /\ video[probe.video].igEnhanced /\ video[probe.video].wrappers = 0
    /\ video[probe.video].calls = 1

====
